---- MODULE Spec2Model ----
(***************************************************************************)
(* Letter generation of BotApplicationLetter.                              *)
(*                                                                         *)
(* One generation request is one call of letter_ai.generate_letter (the    *)
(* function bot.finalize_letter calls) or one call of                      *)
(* llm_providers.call_provider(name, prompt).  The request posts to the    *)
(* vendor endpoint, classifies the answer, sleeps and posts again, or ends *)
(* with a returned value or a raised exception.                            *)
(*                                                                         *)
(* Time is counted in whole simulated seconds; random.uniform(0, c) is a   *)
(* choice among the whole seconds 0..c.                                    *)
(***************************************************************************)
EXTENDS Integers, Sequences, FiniteSets, TLC

\* ------------------------------------------------------------------ bounds
MaxRetriesBound == 3      \* GEMINI_MAX_RETRIES ranges over 0..MaxRetriesBound
MaxCap == 4               \* GEMINI_BACKOFF_CAP_SECONDS is 1 or MaxCap
BigRetryAfter == 9        \* a Retry-After value above every modelled ceiling

Min(a, b) == IF a <= b THEN a ELSE b
Max(a, b) == IF a >= b THEN a ELSE b

\* ------------------------------------------------------- the configuration
Providers == {"gemini", "openai", "groq", "huggingface"}

\* Names given to call_provider that _PROVIDER_CALLS does not hold: the empty
\* name and a provider that is not registered.
UnknownNames == {"", "mistral"}

Names == Providers \cup UnknownNames

\* The function a request enters: generate_letter, or call_provider(name).
Entries == {"generate_letter"} \cup Names

ProviderOf(e) == IF e = "generate_letter" THEN "gemini" ELSE e

KeyStates == {"valid", "missing", "placeholder"}

\* Mutant: only the empty key is refused, the placeholder test is left out.
key_rejected_missing_only(k) == k = "missing"

\* if not api_key or api_key.lower() in {placeholders}
key_rejected(k) == k \in {"missing", "placeholder"}

MaxRetriesValues == 0..MaxRetriesBound
BackoffCaps == {1, MaxCap}

\* The retry budget of a provider: the Gemini loops run range(1, max_retries+1),
\* the other providers post exactly once.
Budget(e, maxr) == IF ProviderOf(e) = "gemini" THEN maxr ELSE 1

\* ------------------------------------------------------------ the responses
\* Vendor error messages, and for each the markers `m in message_l` finds in it.
Messages == {"", "quota exceeded", "rate limit exceeded",
             "quota exceeded for requests per minute", "permission denied"}

quota_markers == {"quota", "exceed", "exhaust", "insufficient quota", "billing",
                  "payment", "resource has been exhausted"}
rate_markers == {"rate", "rate limit", "too many requests", "per minute",
                 "per second", "rpm", "rps", "requests per"}

MarkersIn(msg) ==
    CASE msg = "" -> {}
      [] msg = "quota exceeded" -> {"quota", "exceed"}
      [] msg = "rate limit exceeded" -> {"rate", "rate limit", "exceed"}
      [] msg = "quota exceeded for requests per minute" ->
             {"quota", "exceed", "per minute", "requests per"}
      [] msg = "permission denied" -> {}

ProviderStatuses == {"", "RESOURCE_EXHAUSTED", "QUOTA_EXCEEDED"}

\* A Retry-After header: absent, numeric seconds, an HTTP date (val is its
\* distance from the moment it is parsed), or unparseable text.
NoRetryAfter == [form |-> "absent", val |-> 0]
RetryAfterHeaders ==
    {NoRetryAfter, [form |-> "garbage", val |-> 0]}
    \cup {[form |-> "secs", val |-> v] : v \in {-1, 0, 2, BigRetryAfter}}
    \cup {[form |-> "date", val |-> d] : d \in {-2, 3}}

\* The body of a 2xx answer.
Bodies == {"no_content", "not_json", "no_field", "blank_text",
           "letter", "no_salutation", "no_closing"}

TextBodies == {"letter", "no_salutation", "no_closing"}

Resp(t, status, pstatus, msg, insuf, ra, body) ==
    [t |-> t, status |-> status, pstatus |-> pstatus, msg |-> msg,
     insuf |-> insuf, ra |-> ra, body |-> body]

NoResponse == Resp("none", 0, "", "", FALSE, NoRetryAfter, "no_content")
TransportFailure == Resp("exc", 0, "", "", FALSE, NoRetryAfter, "no_content")

Responses ==
    {TransportFailure}
    \cup {Resp("http", 200, "", "", FALSE, NoRetryAfter, b) : b \in Bodies}
    \cup {Resp("http", s, "", "", FALSE, NoRetryAfter, "no_content") :
            s \in {400, 401, 402, 500}}
    \cup {Resp("http", 403, ps, m, FALSE, NoRetryAfter, "no_content") :
            ps \in ProviderStatuses, m \in Messages}
    \* a 429 varies its error payload, or its Retry-After header
    \cup {Resp("http", 429, ps, m, i, NoRetryAfter, "no_content") :
            ps \in ProviderStatuses, m \in Messages, i \in BOOLEAN}
    \cup {Resp("http", 429, "", m, FALSE, ra, "no_content") :
            m \in {"", "rate limit exceeded"}, ra \in RetryAfterHeaders}

\* -------------------------------------------------------------- the results
\* how: "return" (a value comes back) or "raise" (an exception leaves the call).
\* cls: the Python class of the value or exception; kind: LLMError.kind, or for
\* generate_letter the message it returns; text: the body returned as a letter.
Result(how, cls, kind, provider, text) ==
    [how |-> how, cls |-> cls, kind |-> kind, provider |-> provider, text |-> text]

NoResult == Result("none", "", "", "", "")

ReturnText(p, body) == Result("return", "str", "letter", p, body)
\* The provider a message of generate_letter names in its text: every message
\* but the format error one holds "Gemini" (or GEMINI_API_KEY).
named_in(msg) == IF msg = "format_error" THEN "" ELSE "gemini"

ReturnError(msg) == Result("return", "str", msg, named_in(msg), "")
ReturnNone == Result("return", "NoneType", "None", "gemini", "")
Raise(cls, kind, p) == Result("raise", cls, kind, p, "")

\* ------------------------------------------------------------ pure helpers
NoneVal == -1

\* _parse_retry_after: seconds to wait, or None.
parse_retry_after(h) ==
    CASE h.form = "absent" -> NoneVal
      [] h.form = "secs" -> IF h.val >= 0 THEN h.val ELSE NoneVal
      [] h.form = "date" -> Max(0, h.val)
      [] h.form = "garbage" -> NoneVal

\* Mutant: the exponential ceiling without min(cap, ...).
full_jitter_backoff_uncapped(attempt_index, cap) ==
    0..(2 ^ attempt_index)

\* _full_jitter_backoff: random.uniform(0, max(0, min(cap, 2^attempt))).
full_jitter_backoff(attempt_index, cap) ==
    0..Max(0, Min(cap, 2 ^ attempt_index))

\* Mutant: a message with a quota word is quota whatever else it says.
classify_quota_words_first(status_code, pstatus, msg) ==
    LET hits == MarkersIn(msg)
        anyQuota == hits \cap quota_markers # {}
        anyRate == hits \cap rate_markers # {}
    IN  IF pstatus \in {"RESOURCE_EXHAUSTED", "QUOTA_EXCEEDED"} THEN "quota"
        ELSE IF status_code \in {429, 403} /\ anyQuota THEN "quota"
        ELSE IF status_code \in {429, 403} /\ anyRate THEN "rate_limit"
        ELSE IF status_code = 429 THEN "unknown_429"
        ELSE "other"

\* generate_letter._classify_quota_vs_rate_limit and call_gemini.classify.
classify(status_code, pstatus, msg) ==
    LET hits == MarkersIn(msg)
        anyQuota == hits \cap quota_markers # {}
        anyRate == hits \cap rate_markers # {}
    IN  IF pstatus \in {"RESOURCE_EXHAUSTED", "QUOTA_EXCEEDED"} THEN "quota"
        ELSE IF status_code \in {429, 403} /\ anyQuota /\ ~anyRate THEN "quota"
        ELSE IF status_code \in {429, 403} /\ anyRate THEN "rate_limit"
        ELSE IF status_code = 429 THEN "unknown_429"
        ELSE "other"

\* Mutant: the Retry-After header is not read.
wait_after_429_ignoring_header(h, attempt, cap) ==
    0..Max(0, Min(cap, 2 ^ attempt))

\* The wait the Gemini loops choose before the next attempt after a 429.
wait_after_429(h, attempt, cap) ==
    LET retry_after == parse_retry_after(h)
    IN  IF retry_after # NoneVal THEN {Min(cap, retry_after)}
        ELSE full_jitter_backoff(attempt, cap)

\* The wait of generate_letter's RequestException handler.
wait_after_exception(attempt, cap) == Min(cap, 2 ^ attempt)

\* What one pass of a request's loop decides: end with a result, or sleep one
\* of the waits and post again.
Finish(r) == [go |-> "done", res |-> r, waits |-> {}]
Retry(ws) == [go |-> "sleep", res |-> NoResult, waits |-> ws]


\* The structural check of generate_letter: both markers occur in the text.
has_salutation(body) == body \in {"letter", "no_closing"}
has_closing(body) == body \in {"letter", "no_salutation"}

format_ok(body) == has_salutation(body) /\ has_closing(body)

\* Mutant: the last attempt is taken to be the one after max_retries.
is_last_attempt_off_by_one(attempt, maxr) == attempt = maxr + 1

\* if attempt == max_retries
is_last_attempt(attempt, maxr) == attempt = maxr

\* ------------------------------------------- letter_ai.generate_letter
\* except requests.exceptions.RequestException: return on the last attempt,
\* otherwise sleep and continue.
on_request_exception(attempt, maxr, cap) ==
    IF is_last_attempt(attempt, maxr) THEN Finish(ReturnError("request_exception"))
    ELSE Retry({wait_after_exception(attempt, cap)})

\* The 2xx path.  response.json() on a body that is not JSON raises
\* requests.exceptions.JSONDecodeError (a RequestException) with requests >= 2.27
\* and a plain ValueError before: json_error names which.
generate_letter_success(body, attempt, maxr, cap, json_error) ==
    IF body = "not_json"
    THEN IF json_error = "RequestException"
         THEN on_request_exception(attempt, maxr, cap)
         ELSE Finish(Raise("ValueError", "", "gemini"))
    ELSE IF body \notin TextBodies THEN Finish(ReturnError("empty_response"))
    ELSE IF ~format_ok(body) THEN Finish(ReturnError("format_error"))
    ELSE Finish(ReturnText("gemini", body))

generate_letter_step(resp, attempt, maxr, cap, json_error) ==
    IF resp.t = "exc" THEN on_request_exception(attempt, maxr, cap)
    ELSE IF resp.status \in {429, 403}
    THEN LET classification == classify(resp.status, resp.pstatus, resp.msg)
         IN  IF classification = "quota"
             THEN Finish(ReturnError("quota_exhausted"))
             ELSE IF resp.status = 403 /\ classification # "rate_limit"
             THEN Finish(ReturnError("forbidden_403"))
             ELSE IF resp.status = 429
             THEN IF is_last_attempt(attempt, maxr)
                  THEN Finish(ReturnError(IF classification = "rate_limit"
                                          THEN "rate_limited"
                                          ELSE "unclassified_429"))
                  ELSE Retry(wait_after_429(resp.ra, attempt, cap))
             \* a 403 classified rate_limit falls through to raise_for_status()
             ELSE on_request_exception(attempt, maxr, cap)
    ELSE IF resp.status >= 400
    \* raise_for_status() raises HTTPError, a RequestException
    THEN on_request_exception(attempt, maxr, cap)
    ELSE generate_letter_success(resp.body, attempt, maxr, cap, json_error)

\* ------------------------------------------- llm_providers.call_gemini
call_gemini_step(resp, attempt, maxr, cap) ==
    \* requests.post is outside any try: its exception leaves the call as it is
    IF resp.t = "exc" THEN Finish(Raise("RequestException", "", "gemini"))
    ELSE IF resp.status \in {429, 403}
            /\ classify(resp.status, resp.pstatus, resp.msg) = "quota"
    THEN Finish(Raise("LLMQuotaError", "quota", "gemini"))
    ELSE IF resp.status = 403
            /\ classify(resp.status, resp.pstatus, resp.msg) # "rate_limit"
    THEN Finish(Raise("LLMAuthError", "auth", "gemini"))
    ELSE IF resp.status = 429
    THEN IF is_last_attempt(attempt, maxr)
         THEN Finish(Raise("LLMRateLimitError",
                           IF classify(resp.status, resp.pstatus, resp.msg) = "rate_limit"
                           THEN "rate_limit" ELSE "unknown_429",
                           "gemini"))
         ELSE Retry(wait_after_429(resp.ra, attempt, cap))
    ELSE IF resp.status >= 400
    THEN Finish(Raise("LLMProviderError", "http_error", "gemini"))
    ELSE IF resp.body \notin TextBodies
    THEN Finish(Raise("LLMProviderError", "empty", "gemini"))
    ELSE Finish(ReturnText("gemini", resp.body))

\* ---------------------------- llm_providers._openai_like_chat_completion
openai_like_step(provider, resp) ==
    IF resp.t = "exc" THEN Finish(Raise("RequestException", "", provider))
    ELSE IF resp.status \in {401, 403}
    THEN Finish(Raise("LLMAuthError", "auth", provider))
    ELSE IF resp.status = 429
    THEN IF resp.insuf \/ "quota" \in MarkersIn(resp.msg)
         THEN Finish(Raise("LLMQuotaError", "quota", provider))
         ELSE Finish(Raise("LLMRateLimitError", "rate_limit", provider))
    ELSE IF resp.status = 402
    THEN Finish(Raise("LLMQuotaError", "quota", provider))
    ELSE IF resp.status >= 400
    THEN Finish(Raise("LLMProviderError", "http_error", provider))
    ELSE IF resp.body \notin TextBodies
    THEN Finish(Raise("LLMProviderError", "empty", provider))
    ELSE Finish(ReturnText(provider, resp.body))

\* ------------------------------------- llm_providers.call_huggingface
call_huggingface_step(resp) ==
    IF resp.t = "exc" THEN Finish(Raise("RequestException", "", "huggingface"))
    ELSE IF resp.status \in {401, 403}
    THEN Finish(Raise("LLMAuthError", "auth", "huggingface"))
    ELSE IF resp.status = 429
    THEN Finish(Raise("LLMRateLimitError", "rate_limit", "huggingface"))
    ELSE IF resp.status = 402
    THEN Finish(Raise("LLMQuotaError", "quota", "huggingface"))
    ELSE IF resp.status >= 400
    THEN Finish(Raise("LLMProviderError", "http_error", "huggingface"))
    ELSE IF resp.body \notin TextBodies
    THEN Finish(Raise("LLMProviderError", "parse", "huggingface"))
    ELSE Finish(ReturnText("huggingface", resp.body))

\* ---------------------------------------------------------------- the state
VARIABLES
    entry,        \* the function the request entered
    key,          \* the state of the provider's API key in the environment
    max_retries,  \* int(os.getenv("GEMINI_MAX_RETRIES", "8"))
    backoff_cap,  \* float(os.getenv("GEMINI_BACKOFF_CAP_SECONDS", "120"))
    pc,           \* "start", "post", "sleep" or "done"
    attempt,      \* the loop variable of the Gemini loops, 1 for the others
    calls,        \* outbound requests.post calls made, per provider
    now,          \* the simulated clock, in seconds
    wait,         \* the argument of the pending time.sleep
    last,         \* the answer to the latest requests.post
    lastAt,       \* the clock when that answer arrived
    only429,      \* every answer so far was a 429 without a Retry-After header
    result        \* what the request gave its caller

\* The state of the Telegram bot (bot.py), for one chat.
VARIABLES
    user_data,      \* user_data[cid]: language, responses, editing_field, ...
    user_progress,  \* user_progress[cid]: absent, -1, a step index, "editing", ...
    sessions,       \* the chat's row of the sessions table
    timers,         \* running threads of schedule_clear_session
    handled,        \* the update the bot handled last
    sent            \* the generate_letter call of that update, if it made one

request_vars == <<entry, key, max_retries, backoff_cap, pc, attempt, calls, now,
                  wait, last, lastAt, only429, result>>

bot_vars == <<user_data, user_progress, sessions, timers, handled, sent>>

vars == <<request_vars, bot_vars>>

config == <<entry, key, max_retries, backoff_cap>>

\* ----------------------------------------------------- the bot's data (bot.py)
\* steps = list(lang_questions["English"].keys())
steps ==
    <<"full_name", "address", "phone", "email", "job_title", "company_name",
      "experience", "achievements", "skills", "job_platform", "company_reason">>

StepSet == {steps[i] : i \in 1..Len(steps)}

LANGUAGES == <<"English", "Amharic">>

\* The language of a session: None after /start, else one of LANGUAGES.
LanguageValues == {"None", "English", "Amharic"}

\* A responses dict: a function from the answered steps to their texts.
NoResponses == [f \in {} |-> ""]

\* Mutant: the assignment replaces the dict by one holding only f.
Put_alone(responses, f, v) ==
    [x \in {f} |-> v]

\* responses[f] = v
Put(responses, f, v) ==
    [x \in (DOMAIN responses) \cup {f} |-> IF x = f THEN v ELSE responses[x]]

\* user_data without the chat, user_data[cid] = {"language": None}, and
\* user_data[cid] = {"language": lang, "responses": responses}.
NoData ==
    [present |-> FALSE, language |-> "None", has_responses |-> FALSE,
     responses |-> NoResponses, editing_field |-> "",
     awaiting_feedback |-> FALSE]

FreshData == [NoData EXCEPT !.present = TRUE]

Data(lang, responses) ==
    [present |-> TRUE, language |-> lang, has_responses |-> TRUE,
     responses |-> responses, editing_field |-> "",
     awaiting_feedback |-> FALSE]

\* user_data[cid].get('responses') is truthy.
HasAnswers(ud) ==
    ud.present /\ ud.has_responses /\ DOMAIN ud.responses # {}

\* The values of user_progress[cid].
NoProgress == [k |-> "absent", n |-> 0]
Index(n) == [k |-> "int", n |-> n]
Editing == [k |-> "editing", n |-> 0]
EditingValue == [k |-> "editing_value", n |-> 0]

\* The row of the chat in the sessions table, as load_session returns it.
NoRow ==
    [present |-> FALSE, language |-> "None", progress |-> 0,
     responses |-> NoResponses]

\* Mutant: the row keeps the language and the progress but not the answers.
Row_without_responses(lang, progress, responses) ==
    [present |-> TRUE, language |-> lang, progress |-> progress,
     responses |-> NoResponses]

Row(lang, progress, responses) ==
    [present |-> TRUE, language |-> lang, progress |-> progress,
     responses |-> responses]

\* An update: the handler it goes to, its text or callback data, and the field
\* an "edit:<field>" callback names; then what the handler did with it:
\* whether it restored the session from the table, the branch it took, and the
\* step whose question ask_next sent ("KeyError" when the lookup of the
\* question raised).
NoUpdate ==
    [h |-> "", arg |-> "", field |-> "", restored |-> FALSE, outcome |-> "",
     asked |-> ""]

Update(h, arg, field) ==
    [h |-> h, arg |-> arg, field |-> field, restored |-> FALSE,
     outcome |-> "", asked |-> ""]

\* k.replace('_', ' ').title()
Label(k) ==
    CASE k = "full_name" -> "Full Name"
      [] k = "address" -> "Address"
      [] k = "phone" -> "Phone"
      [] k = "email" -> "Email"
      [] k = "job_title" -> "Job Title"
      [] k = "company_name" -> "Company Name"
      [] k = "experience" -> "Experience"
      [] k = "achievements" -> "Achievements"
      [] k = "skills" -> "Skills"
      [] k = "job_platform" -> "Job Platform"
      [] k = "company_reason" -> "Company Reason"

\* finalize_letter's prompt: one line "Label: value" for every item of resp.
user_details(resp) ==
    {[label |-> Label(k), value |-> resp[k]] : k \in DOMAIN resp}

\* The labels that occur in the fixed text of generate_letter's prompt:
\* "[Full Name]", "Address:[Street Address]", "Phone: [Phone]",
\* "Email: [Email]", "[Company Name]", "Skills matching job requirements".
template_labels ==
    {"Full Name", "Address", "Phone", "Email", "Company Name", "Skills"}

\* generate_letter's prompt: the fixed text around {user_input}.
prompt_text(user_input) ==
    [details |-> user_input, template |-> template_labels]

\* No generate_letter call, and the call finalize_letter makes: the responses
\* it reads, the prompt posted, what generate_letter gave and whether the try
\* block ran to its end.
NoCall ==
    [called |-> FALSE, fields |-> NoResponses,
     prompt |-> prompt_text(user_details(NoResponses)), gen |-> "",
     completed |-> FALSE]

Call(resp, gen, completed) ==
    [called |-> TRUE, fields |-> resp,
     prompt |-> prompt_text(user_details(resp)), gen |-> gen,
     completed |-> completed]

\* The process has started: both dicts are empty and no thread runs.
BotStart ==
    /\ user_data = NoData
    /\ user_progress = NoProgress
    /\ sessions = NoRow
    /\ timers = 0
    /\ handled = NoUpdate
    /\ sent = NoCall

Init ==
    /\ entry \in Entries
    /\ key \in KeyStates
    /\ max_retries \in MaxRetriesValues
    /\ backoff_cap \in BackoffCaps
    /\ pc = "start"
    /\ attempt = 0
    /\ calls = [p \in Names |-> 0]
    /\ now = 0
    /\ wait = 0
    /\ last = NoResponse
    /\ lastAt = 0
    /\ only429 = TRUE
    /\ result = NoResult
    /\ BotStart

End(r) ==
    /\ pc' = "done"
    /\ result' = r

\* generate_letter up to its loop: the key checks, then range(1, max_retries + 1).
generate_letter_enter ==
    /\ pc = "start"
    /\ entry = "generate_letter"
    /\ IF key_rejected(key)
       THEN End(ReturnError(IF key = "missing" THEN "key_missing"
                            ELSE "key_placeholder")) /\ attempt' = attempt
       ELSE IF max_retries < 1
       \* the loop body never runs and the function falls off its end
       THEN End(ReturnNone) /\ attempt' = attempt
       ELSE pc' = "post" /\ attempt' = 1 /\ result' = result
    /\ UNCHANGED <<config, calls, now, wait, last, lastAt, only429>>
    /\ UNCHANGED bot_vars

\* call_provider(name, prompt) up to the first post of the provider it names.
call_provider_enter ==
    /\ pc = "start"
    /\ entry \in Names
    /\ IF entry \notin Providers
       \* if key not in _PROVIDER_CALLS
       THEN End(Raise("LLMProviderError", "config",
                      IF entry = "" THEN "unknown" ELSE entry))
            /\ attempt' = attempt
       ELSE IF key_rejected(key)
       THEN End(Raise("LLMAuthError", "auth", entry)) /\ attempt' = attempt
       ELSE IF entry = "gemini" /\ max_retries < 1
       THEN End(Raise("LLMRateLimitError", "rate_limit", "gemini"))
            /\ attempt' = attempt
       ELSE pc' = "post" /\ attempt' = 1 /\ result' = result
    /\ UNCHANGED <<config, calls, now, wait, last, lastAt, only429>>
    /\ UNCHANGED bot_vars

\* One requests.post answered by resp, and what the code decides from it.
Answered(resp, outcome) ==
    /\ calls' = [calls EXCEPT ![ProviderOf(entry)] = @ + 1]
    /\ last' = resp
    /\ lastAt' = now
    /\ only429' = (only429 /\ resp.t = "http" /\ resp.status = 429
                     /\ resp.ra = NoRetryAfter)
    /\ IF outcome.go = "done"
       THEN End(outcome.res) /\ wait' = wait
       ELSE /\ pc' = "sleep"
            /\ wait' \in outcome.waits
            /\ result' = result
    /\ UNCHANGED <<config, attempt, now>>
    /\ UNCHANGED bot_vars

generate_letter_attempt ==
    /\ pc = "post"
    /\ entry = "generate_letter"
    /\ \E resp \in Responses, json_error \in {"RequestException", "ValueError"} :
         Answered(resp, generate_letter_step(resp, attempt, max_retries,
                                             backoff_cap, json_error))

call_gemini_attempt ==
    /\ pc = "post"
    /\ entry = "gemini"
    /\ \E resp \in Responses :
         Answered(resp, call_gemini_step(resp, attempt, max_retries, backoff_cap))

openai_like_attempt ==
    /\ pc = "post"
    /\ entry \in {"openai", "groq"}
    /\ \E resp \in Responses : Answered(resp, openai_like_step(entry, resp))

call_huggingface_attempt ==
    /\ pc = "post"
    /\ entry = "huggingface"
    /\ \E resp \in Responses : Answered(resp, call_huggingface_step(resp))

\* time.sleep(wait); continue
Sleep ==
    /\ pc = "sleep"
    /\ now' = now + wait
    /\ attempt' = attempt + 1
    /\ pc' = "post"
    /\ UNCHANGED <<config, calls, wait, last, lastAt, only429, result>>
    /\ UNCHANGED bot_vars

Next ==
    \/ generate_letter_enter
    \/ call_provider_enter
    \/ generate_letter_attempt
    \/ call_gemini_attempt
    \/ openai_like_attempt
    \/ call_huggingface_attempt
    \/ Sleep

Spec == Init /\ [][Next]_vars

\* time.sleep returns after its argument has elapsed and requests.post
\* returns or raises within its timeout: a request that can step does step.
LiveSpec == Spec /\ WF_vars(Next)

TypeOK ==
    /\ pc \in {"start", "post", "sleep", "done"}
    /\ attempt \in 0..(MaxRetriesBound + 1)
    /\ last \in Responses \cup {NoResponse}
    /\ wait \in 0..(MaxCap + 1)


\* ============================================================ the bot (bot.py)
\* Running session-clear threads explored.
MaxTimers == 1

\* The texts a chat sends: a language choice, a two-word name, a phone number,
\* and an e-mail address followed by a comma and a digit.
Texts == {"1", "A B", "0912345678", "a@b.c,1"}

\* The fields an "edit:<field>" callback names; "bogus" is not a step.
EditTargets == {"full_name", "address", "company_reason", "bogus"}

CallbackData ==
    {[op |-> o, field |-> ""] :
        o \in {"restart", "feedback", "retry", "edit_cancel", "noop"}}
    \cup {[op |-> "edit", field |-> f] : f \in EditTargets}

\* What generate_letter gives finalize_letter: the validated letter, a message
\* starting with the cross mark, None, or an exception.
GenerationOutcomes == {"letter", "error", "none", "raise"}

\* str methods and regular expressions of validate_input on the texts.
isdigit(t) == t \in {"1", "0912345678"}
int(t) == IF t = "1" THEN 1 ELSE 912345678
length(t) ==
    CASE t = "1" -> 1
      [] t = "A B" -> 3
      [] t = "0912345678" -> 10
      [] t = "a@b.c,1" -> 7
words(t) == IF t = "A B" THEN 2 ELSE 1
any_digit(t) == t \in {"1", "0912345678", "a@b.c,1"}
phone_match(t) == t = "0912345678"
email_match(t) == t = "a@b.c,1"
comma_items(t) == IF t = "a@b.c,1" THEN 2 ELSE 1

validate_input(step, text) ==
    CASE step = "full_name" -> words(text) >= 2 /\ ~any_digit(text)
      [] step = "address" -> length(text) >= 5
      [] step = "phone" -> phone_match(text)
      [] step = "email" -> email_match(text)
      [] step = "job_title" -> length(text) >= 3 /\ ~any_digit(text)
      [] step = "company_name" -> length(text) >= 2 /\ ~any_digit(text)
      [] step = "experience" -> any_digit(text)
      [] step = "achievements" -> length(text) >= 10
      [] step = "skills" -> comma_items(text) >= 2
      [] step = "job_platform" -> length(text) >= 3
      [] step = "company_reason" -> length(text) >= 10
      [] OTHER -> TRUE

\* Mutant: the progress is the number of answered steps.
compute_next_progress_counting(responses) ==
    Cardinality({i \in 1..Len(steps) :
                    /\ steps[i] \in DOMAIN responses
                    /\ responses[steps[i]] # ""})

\* compute_next_progress: the index of the first step without a non-empty
\* response, len(steps) when there is none.
compute_next_progress(responses) ==
    LET open == {i \in 1..Len(steps) :
                    \/ steps[i] \notin DOMAIN responses
                    \/ responses[steps[i]] = ""}
    IN  IF open = {} THEN Len(steps)
        ELSE (CHOOSE i \in open : \A j \in open : i <= j) - 1

\* Mutant: a handler that returns deletes the row of the chat.
Leave_deleting_row(ud, up) ==
    /\ user_data' = ud
    /\ user_progress' = up
    /\ sent' = NoCall
    /\ sessions' = NoRow
    /\ UNCHANGED timers

\* The handler leaves the chat with ud and up and touches nothing else.
Leave(ud, up) ==
    /\ user_data' = ud
    /\ user_progress' = up
    /\ sent' = NoCall
    /\ UNCHANGED <<sessions, timers>>

\* Mutant: the finally block starts the session over instead of keeping it.
finalize_finally_starting_over(lang, resp) ==
    /\ user_data' = Data(lang, NoResponses)
    /\ user_progress' = Index(0)
    /\ sessions' = Row(lang, 0, NoResponses)

\* The finally block of finalize_letter.
finalize_finally(lang, resp) ==
    /\ user_data' = Data(lang, resp)
    /\ user_progress' = Index(Len(steps))
    /\ sessions' = Row(lang, Len(steps), resp)

\* finalize_letter(cid) for user_data[cid] = ud. The try block runs to its end
\* when generate_letter gave a letter, the PDF and the Telegram calls worked,
\* resp['full_name'] exists and the language has buttons; every other way ends
\* in the except block. The finally block runs in both cases.
finalize_letter(ud) ==
    \E gen \in GenerationOutcomes, delivered \in BOOLEAN :
        LET lang == ud.language
            resp == ud.responses
            completed ==
                /\ gen = "letter"
                /\ delivered
                /\ "full_name" \in DOMAIN resp
                /\ lang # "None"
        IN  /\ gen # "letter" => delivered
            /\ completed => timers < MaxTimers
            /\ sent' = Call(resp, gen, completed)
            \* delete_session(cid); schedule_clear_session(cid)
            /\ timers' = IF completed THEN timers + 1 ELSE timers
            /\ finalize_finally(lang, resp)

\* retry_generation(cid), entered with user_data[cid] = ud.
retry_generation(ud, up) ==
    IF HasAnswers(ud) THEN finalize_letter(ud)
    ELSE IF sessions.present /\ DOMAIN sessions.responses # {}
    THEN finalize_letter(Data(sessions.language, sessions.responses))
    ELSE Leave(ud, up)

\* The body of cmd_reset.
reset ==
    /\ user_data' = FreshData
    /\ user_progress' = Index(-1)
    /\ sessions' = NoRow
    /\ sent' = NoCall
    /\ timers' = timers

\* The body of cmd_feedback: KeyError when the chat is not in user_data.
feedback(ud, up) ==
    IF ud.present THEN Leave([ud EXCEPT !.awaiting_feedback = TRUE], up)
    ELSE Leave(ud, up)

\* Mutant: /start leaves the row of the sessions table where it is.
cmd_start_keeping_row ==
    /\ handled' = Update("cmd_start", "", "")
    /\ user_data' = FreshData
    /\ user_progress' = Index(-1)
    /\ sent' = NoCall
    /\ UNCHANGED <<sessions, timers, request_vars>>

cmd_start ==
    /\ handled' = Update("cmd_start", "", "")
    /\ user_data' = FreshData
    /\ user_progress' = Index(-1)
    /\ sessions' = NoRow
    /\ sent' = NoCall
    /\ UNCHANGED <<timers, request_vars>>

cmd_reset ==
    /\ handled' = Update("cmd_reset", "", "")
    /\ reset
    /\ UNCHANGED request_vars

cmd_retry ==
    /\ handled' = Update("cmd_retry", "", "")
    /\ retry_generation(user_data, user_progress)
    /\ UNCHANGED request_vars

cmd_feedback ==
    /\ handled' = Update("cmd_feedback", "", "")
    /\ feedback(user_data, user_progress)
    /\ UNCHANGED request_vars

cmd_edit ==
    LET restore ==
            /\ ~HasAnswers(user_data)
            /\ sessions.present
            /\ DOMAIN sessions.responses # {}
        ud == IF restore THEN Data(sessions.language, sessions.responses)
              ELSE user_data
        up == IF restore THEN Index(sessions.progress) ELSE user_progress
    IN  /\ handled' = [Update("cmd_edit", "", "") EXCEPT !.restored = restore]
        /\ IF HasAnswers(ud) THEN Leave(ud, Editing) ELSE Leave(ud, up)
        /\ UNCHANGED request_vars

cb_handler ==
    \E data \in CallbackData :
        LET restore ==
                /\ ~user_data.present
                /\ sessions.present
                /\ sessions.language # "None"
            ud == IF user_data.present THEN user_data
                  ELSE IF restore
                  THEN Data(sessions.language, sessions.responses)
                  ELSE Data("English", NoResponses)
            up == IF restore THEN Index(sessions.progress) ELSE user_progress
        IN  /\ handled' = [Update("cb_handler", data.op, data.field)
                           EXCEPT !.restored = restore]
            /\ CASE data.op = "restart" -> reset
                 [] data.op = "feedback" -> feedback(ud, up)
                 [] data.op = "retry" -> retry_generation(ud, up)
                 [] data.op = "edit_cancel" ->
                        Leave([ud EXCEPT !.editing_field = ""], up)
                 [] data.op = "edit" ->
                        IF data.field \notin StepSet THEN Leave(ud, up)
                        ELSE Leave([ud EXCEPT !.editing_field = data.field],
                                   EditingValue)
                 [] OTHER -> Leave(ud, up)
            /\ UNCHANGED request_vars

\* ask_next(cid) below len(steps): the step whose question is sent;
\* lang_questions[lang] raises KeyError when the language is None.
ask_next(lang, idx) ==
    IF lang = "None" THEN "KeyError" ELSE steps[idx + 1]

\* msg_handler(msg) with txt = msg.text.strip(). A KeyError on user_data[cid]
\* ends the handler where it stands; ask_next sends a question and changes no
\* state unless it calls finalize_letter.
msg_handler ==
    \E txt \in Texts :
        LET restore ==
                /\ user_progress = NoProgress
                /\ sessions.present
                /\ sessions.language \in {LANGUAGES[i] : i \in 1..Len(LANGUAGES)}
            ud == IF restore THEN Data(sessions.language, sessions.responses)
                  ELSE user_data
            state == IF restore THEN Index(sessions.progress)
                     ELSE user_progress
            idx == IF isdigit(txt) THEN int(txt) - 1 ELSE -1
            field == ud.editing_field
            edited == Put(ud.responses, field, txt)
            next_idx == compute_next_progress(edited)
            step == steps[state.n + 1]
            answered == Put(ud.responses, step, txt)
            branch ==
                IF ud.present /\ ud.awaiting_feedback THEN "feedback"
                ELSE IF state = Index(-1)
                THEN IF ~(0 <= idx /\ idx < Len(LANGUAGES))
                     THEN "invalid_choice"
                     ELSE IF ud.present THEN "language" ELSE "KeyError"
                ELSE IF ud.present /\ field # ""
                THEN IF validate_input(field, txt)
                     THEN "edited" ELSE "rejected"
                ELSE IF state = Editing
                THEN IF txt \in StepSet /\ ud.present
                     THEN "field_chosen" ELSE "invalid_field"
                ELSE IF state.k = "int" /\ state.n < Len(steps)
                THEN IF ~ud.present THEN "KeyError"
                     ELSE IF ~validate_input(step, txt) THEN "rejected"
                     ELSE IF ud.has_responses THEN "answered" ELSE "KeyError"
                ELSE "ignored"
            asked ==
                CASE branch = "language" -> ask_next(LANGUAGES[idx + 1], 0)
                  [] branch = "edited" /\ next_idx < Len(steps) ->
                         ask_next(ud.language, next_idx)
                  [] branch = "answered" /\ state.n + 1 < Len(steps) ->
                         ask_next(ud.language, state.n + 1)
                  [] OTHER -> ""
        IN  /\ handled' = [Update("msg_handler", txt, "")
                           EXCEPT !.restored = restore, !.outcome = branch,
                                  !.asked = asked]
            /\ UNCHANGED request_vars
            /\ CASE branch = "feedback" ->
                        Leave([ud EXCEPT !.awaiting_feedback = FALSE], state)
                 [] branch = "language" ->
                        /\ user_data' =
                             [ud EXCEPT !.language = LANGUAGES[idx + 1],
                                        !.has_responses = TRUE,
                                        !.responses = NoResponses]
                        /\ user_progress' = Index(0)
                        /\ sessions' = Row(LANGUAGES[idx + 1], 0, NoResponses)
                        /\ sent' = NoCall
                        /\ timers' = timers
                 [] branch = "edited" ->
                        /\ user_data' =
                             [ud EXCEPT !.has_responses = TRUE,
                                        !.responses = edited,
                                        !.editing_field = ""]
                        /\ user_progress' = Index(next_idx)
                        /\ sessions' = Row(ud.language, next_idx, edited)
                        /\ sent' = NoCall
                        /\ timers' = timers
                 [] branch = "field_chosen" ->
                        Leave([ud EXCEPT !.editing_field = txt], EditingValue)
                 [] branch = "answered" /\ state.n + 1 < Len(steps) ->
                        /\ user_data' = [ud EXCEPT !.responses = answered]
                        /\ user_progress' = Index(state.n + 1)
                        /\ sessions' = Row(ud.language, state.n + 1, answered)
                        /\ sent' = NoCall
                        /\ timers' = timers
                 [] branch = "answered" /\ state.n + 1 >= Len(steps) ->
                        finalize_letter([ud EXCEPT !.responses = answered])
                 [] OTHER -> Leave(ud, state)

\* The thread of schedule_clear_session wakes after its delay.
clear ==
    /\ timers > 0
    /\ timers' = timers - 1
    /\ user_data' = NoData
    /\ user_progress' = NoProgress
    /\ sessions' = NoRow
    /\ handled' = Update("clear", "", "")
    /\ sent' = NoCall
    /\ UNCHANGED request_vars

\* The process restarts: the dicts and the threads are gone, the table stays.
restart ==
    /\ user_data' = NoData
    /\ user_progress' = NoProgress
    /\ timers' = 0
    /\ handled' = Update("restart", "", "")
    /\ sent' = NoCall
    /\ UNCHANGED <<sessions, request_vars>>

BotTypeOK ==
    /\ user_data.language \in LanguageValues
    /\ user_data.editing_field \in StepSet \cup {""}
    /\ DOMAIN user_data.responses \subseteq StepSet
    /\ user_progress.k \in {"absent", "int", "editing", "editing_value"}
    /\ user_progress.n \in -1..Len(steps)
    /\ sessions.progress \in 0..Len(steps)
    /\ timers \in 0..MaxTimers

\* The bot on its own: no request of the other model is under way.
BotInit ==
    /\ entry = "generate_letter"
    /\ key = "valid"
    /\ max_retries = 1
    /\ backoff_cap = 1
    /\ pc = "start"
    /\ attempt = 0
    /\ calls = [p \in Names |-> 0]
    /\ now = 0
    /\ wait = 0
    /\ last = NoResponse
    /\ lastAt = 0
    /\ only429 = TRUE
    /\ result = NoResult
    /\ BotStart

BotNext ==
    \/ cmd_start
    \/ cmd_reset
    \/ cmd_retry
    \/ cmd_feedback
    \/ cmd_edit
    \/ cb_handler
    \/ msg_handler
    \/ clear
    \/ restart

SpecBot == BotInit /\ [][BotNext]_vars

\* ================================================================ the claims
\* The provider the request talks to, the calls it has made to it and the
\* calls it may make.
P == ProviderOf(entry)
Made == calls[P]
Allowed == Budget(entry, max_retries)

\* The error classification a result carries, in the specification's names:
\* the class of a raised LLMError (and its kind for LLMProviderError), or the
\* message generate_letter returns.
Classification(r) ==
    CASE r.how = "raise" /\ r.cls = "LLMAuthError" -> "auth"
      [] r.how = "raise" /\ r.cls = "LLMQuotaError" -> "quota"
      [] r.how = "raise" /\ r.cls = "LLMRateLimitError" -> "rate_limit"
      [] r.how = "raise" /\ r.cls = "LLMProviderError" /\ r.kind = "empty" ->
             "empty_response"
      [] r.how = "raise" /\ r.cls = "LLMProviderError" /\ r.kind # "empty" ->
             "provider_error"
      [] r.how = "return" /\ r.kind = "quota_exhausted" -> "quota"
      [] r.how = "return" /\ r.kind = "forbidden_403" -> "auth"
      [] r.how = "return" /\ r.kind \in {"rate_limited", "unclassified_429"} ->
             "rate_limit"
      [] r.how = "return" /\ r.kind = "empty_response" -> "empty_response"
      [] r.how = "return" /\ r.kind = "format_error" -> "format_error"
      [] r.how = "return" /\ r.kind = "request_exception" -> "network_error"
      \* "GEMINI_API_KEY is not set" / "is still a placeholder"
      [] r.how = "return" /\ r.kind \in {"key_missing", "key_placeholder"} ->
             "auth"
      [] OTHER -> "none"

IsLetter(r) == r.how = "return" /\ r.kind = "letter"

\* The vocabulary a message matches, as the specification words it.
MatchesQuota(msg) == MarkersIn(msg) \cap quota_markers # {}
MatchesRate(msg) == MarkersIn(msg) \cap rate_markers # {}
ContainsQuotaExceeded(msg) ==
    msg \in {"quota exceeded", "quota exceeded for requests per minute"}

\* ----------------------------------------------------------------------- C1
\* C1: with provider order [A, B], when A answered HTTP 429 without a
\* Retry-After header on every one of its allowed attempts, the request ends
\* with a letter of another provider B, which was called, and no failure
\* reaches the caller.
C1_FallbackToNextProvider ==
    (pc = "done" /\ only429 /\ Allowed >= 1 /\ Made = Allowed)
        => \E B \in Providers \ {P} :
             /\ calls[B] >= 1
             /\ result = ReturnText(B, "letter")

\* ----------------------------------------------------------------------- C2
\* C2: an HTTP 403 whose error message contains "quota exceeded" ends the
\* provider's attempts at once with a quota failure; when it answers the first
\* attempt, exactly one call was made.
C2_Quota403NotRetried ==
    (last.t = "http" /\ last.status = 403 /\ ContainsQuotaExceeded(last.msg))
        => /\ pc = "done"
           /\ Classification(result) = "quota"
           /\ (attempt = 1 => Made = 1)

\* ----------------------------------------------------------------------- C3
\* C3: an HTTP 401, or an HTTP 403 that matches neither rate-limit nor quota
\* vocabulary and carries no exhausted status, ends the provider's attempts at
\* once with an auth failure; when it answers the first attempt, exactly one
\* call was made.
AuthFailure(resp) ==
    /\ resp.t = "http"
    /\ \/ resp.status = 401
       \/ /\ resp.status = 403
          /\ ~MatchesRate(resp.msg)
          /\ ~MatchesQuota(resp.msg)
          /\ resp.pstatus = ""

C3_AuthFailsAtOnce ==
    AuthFailure(last)
        => /\ pc = "done"
           /\ Classification(result) = "auth"
           /\ (attempt = 1 => Made = 1)

\* ----------------------------------------------------------------------- C4
\* C4: an HTTP 400 or 500 ends the provider's attempts at once with a
\* provider error (generate_letter's "Gemini Error: <HTTP error>" message is
\* taken as one): no sleep and no further attempt follows it.
C4_OtherHttpErrorNotRetried ==
    (last.t = "http" /\ last.status \in {400, 500})
        => /\ pc = "done"
           /\ \/ Classification(result) = "provider_error"
              \/ result = ReturnError("request_exception")


\* ----------------------------------------------------------------------- C5
\* A 429 that is rate limiting and not quota exhaustion: no exhausted
\* provider status, no insufficient-quota error type, and a message that
\* either matches rate-limit vocabulary without naming a quota or matches no
\* quota vocabulary at all.
RateLimited429(resp) ==
    /\ resp.t = "http"
    /\ resp.status = 429
    /\ resp.pstatus = ""
    /\ ~resp.insuf
    /\ "quota" \notin MarkersIn(resp.msg)
    /\ (MatchesRate(resp.msg) \/ ~MatchesQuota(resp.msg))

C5_RetryOrRecord ==
    RateLimited429(last) =>
        IF Made < Allowed
        THEN /\ pc \in {"sleep", "post"}
             /\ result = NoResult
             /\ (pc = "sleep" => attempt = Made /\ wait \in 0..backoff_cap)
             /\ (pc = "post" => attempt = Made + 1 /\ now >= lastAt)
        ELSE /\ pc = "done"
             /\ Made = Allowed
             /\ Classification(result) = "rate_limit"
             /\ result.provider = P

C6_TransportFailureHandled ==
    last.t = "exc" =>
        IF Made < Allowed
        THEN /\ pc \in {"sleep", "post"}
             /\ (pc = "sleep" => wait \in 0..backoff_cap)
        ELSE /\ pc = "done"
             /\ Classification(result) = "network_error"

\* ----------------------------------------------------------------------- C7
\* C7: a 2xx answer whose text lacks "Dear Hiring Manager" or "Sincerely,"
\* ends the provider's attempts with a format_error and its text is not
\* returned as a letter.
C7_FormatRejected ==
    (last.t = "http" /\ last.status = 200
        /\ last.body \in {"no_salutation", "no_closing"})
        => /\ pc = "done"
           /\ ~IsLetter(result)
           /\ Classification(result) = "format_error"

\* ----------------------------------------------------------------------- C8
\* C8: a 2xx answer without the expected text field, or with a text that is
\* empty after trimming, ends the provider's attempts with an empty_response
\* failure: no sleep and no further attempt follows it.
C8_EmptyResponseNotRetried ==
    (last.t = "http" /\ last.status = 200 /\ last.body \notin TextBodies)
        => /\ pc = "done"
           /\ Classification(result) = "empty_response"

\* ----------------------------------------------------------------------- C9
NumericRetryAfter(resp) ==
    /\ resp.t = "http"
    /\ resp.status = 429
    /\ resp.ra.form = "secs"
    /\ resp.ra.val >= 0

\* C9: when the 429 answered by the previous attempt carried Retry-After: n
\* seconds, the next attempt starts no earlier than min(ceiling, n) seconds
\* after that answer, and no later than the ceiling after it.
C9_RetryAfterHonoured ==
    /\ (pc = "sleep" /\ NumericRetryAfter(last)) => wait <= backoff_cap
    /\ (pc = "post" /\ attempt > 1 /\ NumericRetryAfter(last))
         => /\ now - lastAt >= Min(backoff_cap, last.ra.val)
            /\ now - lastAt <= backoff_cap

\* The second attempt starts 2 seconds after a 429 with Retry-After: 2 under a
\* ceiling of MaxCap seconds.
C9_Witness ==
    /\ pc = "post"
    /\ attempt = 2
    /\ NumericRetryAfter(last)
    /\ last.ra.val = 2
    /\ backoff_cap = MaxCap
    /\ now - lastAt = 2

\* ---------------------------------------------------------------------- C10
UsableRetryAfter(h) ==
    \/ h.form = "date"
    \/ h.form = "secs" /\ h.val >= 0

\* C10: the wait before attempt k+1 after a 429 without a usable Retry-After
\* value lies in [0, min(cap, 2^k)], and every wait between two attempts of a
\* request lies in [0, cap].
C10_JitterWithinCeiling ==
    pc = "sleep" =>
        /\ wait \in 0..backoff_cap
        /\ (last.t = "http" /\ last.status = 429 /\ ~UsableRetryAfter(last.ra))
             => wait \in 0..Min(backoff_cap, 2 ^ attempt)

\* After the first attempt's 429 without Retry-After the jitter picked its
\* upper end 2^1, which lies below the ceiling MaxCap.
C10_Witness ==
    /\ pc = "sleep"
    /\ attempt = 1
    /\ last.t = "http" /\ last.status = 429 /\ last.ra = NoRetryAfter
    /\ backoff_cap = MaxCap
    /\ wait = 2

Taxonomy ==
    {"auth", "quota", "rate_limit", "provider_error", "empty_response",
     "network_error", "format_error"}

\* C12: whatever the provider answers and however the transport fails, a
\* request with a budget of at least one attempt makes at most that many calls
\* to its provider and none to another, and what it ends with is a letter or a
\* failure that carries one of the error kinds.
C12_BoundedCallsThenResult ==
    /\ \A p \in Names : calls[p] <= (IF p = P THEN Allowed ELSE 0)
    /\ (pc = "done" /\ Allowed >= 1) =>
         \/ IsLetter(result)
         \/ Classification(result) \in Taxonomy

\* ---------------------------------------------------------------------- C13
LLMErrorClasses ==
    {"LLMAuthError", "LLMQuotaError", "LLMRateLimitError", "LLMProviderError"}

\* C13: no failure leaves generation as a bare exception: generate_letter
\* returns every failure, and what call_provider raises is an LLMError, which
\* carries the kind and the provider of the failure.
C13_NoRawException ==
    (pc = "done" /\ result.how = "raise") =>
        /\ entry # "generate_letter"
        /\ result.cls \in LLMErrorClasses

\* ---------------------------------------------------------------------- C14
\* C14: a request ends with a letter only if the answer to its last attempt was
\* HTTP 2xx with a text that holds both the salutation and the closing; a
\* request that has ended makes no further call.
C14_SuccessOnlyIfValidated ==
    /\ (pc = "done" /\ IsLetter(result)) =>
         /\ last.t = "http"
         /\ last.status \in 200..299
         /\ has_salutation(last.body)
         /\ has_closing(last.body)
         /\ result.text = last.body
    /\ (pc = "done" /\ ~IsLetter(result)) => ~ENABLED Next

\* ---------------------------------------------------------------------- C15
\* C15: a request that names no provider, or only a provider that is not
\* registered, is served by a registered provider: with a usable key it ends
\* after at least one call, and never with a configuration error.
C15_DefaultProviderSubstituted ==
    (pc = "done" /\ entry \in UnknownNames /\ key = "valid") =>
        /\ \E p \in Providers : calls[p] >= 1
        /\ ~(result.how = "raise" /\ result.kind = "config")

\* ---------------------------------------------------------------------- C16
\* C16: a request that ends without a letter after at least one attempt ends
\* with a failure that carries one of the error kinds and names the provider
\* that was called.
C16_FailureCarriesKindAndProvider ==
    (pc = "done" /\ Made >= 1 /\ ~IsLetter(result)) =>
        /\ Classification(result) \in Taxonomy
        /\ result.provider = P

\* ---------------------------------------------------------------------- C17
\* C17: the kind of every LLMError raised after a call to a provider is one
\* of the error kinds, where "http_error" and "empty" are taken as the code's
\* spellings of provider_error and empty_response.
C17_KindInTaxonomy ==
    (pc = "done" /\ Made >= 1 /\ result.how = "raise"
       /\ result.cls \in LLMErrorClasses) =>
        result.kind \in Taxonomy \cup {"http_error", "empty"}

\* ---------------------------------------------------------------------- C18
\* The responses hold a non-empty value for step f.
Populated(responses, f) ==
    f \in DOMAIN responses /\ responses[f] # ""

\* C18: whenever the bot calls generate_letter, the responses it builds the
\* prompt from hold a non-empty value for every one of the steps.
C18_GenerationOnlyWhenAllAnswered ==
    sent.called => \A f \in StepSet : Populated(sent.fields, f)

\* ---------------------------------------------------------------------- C19
\* The prompt holds the value v, and it holds the label l: in a line of the
\* user details or in the fixed text around them.
ContainsValue(prompt, v) ==
    \E line \in prompt.details : line.value = v

ContainsLabel(prompt, l) ==
    \/ l \in prompt.template
    \/ \E line \in prompt.details : line.label = l

\* C19: the prompt posted to the provider holds the value of every step that
\* has a non-empty response and the label of no step that has none.
C19_PromptHoldsTheGivenFieldsOnly ==
    sent.called =>
        \A f \in StepSet :
            IF Populated(sent.fields, f)
            THEN ContainsValue(sent.prompt, sent.fields[f])
            ELSE ~ContainsLabel(sent.prompt, Label(f))

\* ---------------------------------------------------------------------- C20
\* A 403 that is worded as rate limiting: its message matches the rate-limit
\* vocabulary and the provider status is not one of the exhausted ones.
RateWorded403(resp) ==
    /\ resp.t = "http"
    /\ resp.status = 403
    /\ resp.pstatus \notin {"RESOURCE_EXHAUSTED", "QUOTA_EXCEEDED"}
    /\ MatchesRate(resp.msg)

\* C20: after a 403 worded as rate limiting the request waits at most the
\* ceiling and tries the provider again while attempts are left, and on the
\* last allowed attempt it ends with a failure of kind rate_limit.
C20_RateWorded403Retried ==
    RateWorded403(last) =>
        IF Made < Allowed
        THEN /\ pc \in {"sleep", "post"}
             /\ (pc = "sleep" => wait \in 0..backoff_cap)
        ELSE /\ pc = "done"
             /\ Classification(result) = "rate_limit"

\* ---------------------------------------------------------------------- C21
\* C21: whatever the configuration and the answers, what generate_letter ends
\* with is a returned string: the letter or a message.
C21_GenerateLetterReturnsString ==
    (entry = "generate_letter" /\ pc = "done") =>
        /\ result.how = "return"
        /\ result.cls = "str"

\* ---------------------------------------------------------------------- C22
\* The answers the session holds before an update: those in memory, or those
\* of the row when memory has none.
AnswersBefore ==
    IF HasAnswers(user_data) THEN user_data.responses
    ELSE IF sessions.present THEN sessions.responses
    ELSE NoResponses

Holds(resp, answers) ==
    \A f \in DOMAIN answers : f \in DOMAIN resp /\ resp[f] = answers[f]

FailedGeneration == sent.called /\ ~sent.completed

RetryFollows ==
    \/ handled'.h = "cmd_retry"
    \/ handled'.h = "cb_handler" /\ handled'.arg = "retry"

\* C22: when a generation fails, memory and the row both still hold every
\* answer given before the attempt, which are the answers the attempt used,
\* and the progress of both is the number of steps; a Retry that follows
\* generates again from the same answers.
C22_FailedGenerationKeepsAnswers ==
    [][/\ FailedGeneration' =>
            /\ Holds(user_data'.responses, AnswersBefore)
            /\ Holds(sessions'.responses, AnswersBefore)
            /\ user_data'.responses = sent'.fields
            /\ sessions'.present
            /\ sessions'.responses = sent'.fields
            /\ user_progress' = Index(Len(steps))
            /\ sessions'.progress = Len(steps)
       /\ (FailedGeneration /\ RetryFollows) =>
            /\ sent'.called
            /\ sent'.fields = sent.fields]_vars

C22_Witness ==
    /\ FailedGeneration
    /\ sent.gen = "error"
    /\ handled.h = "cb_handler"
    /\ handled.arg = "retry"
    /\ DOMAIN sent.fields = StepSet
    /\ sessions.responses = sent.fields

\* ---------------------------------------------------------------------- C23
\* C23: when finalize_letter has returned from a generation whose try block
\* ran to its end, the chat has no row in the sessions table.
C23_NoRowAfterSuccess ==
    (sent.called /\ sent.completed) => ~sessions.present

InQuestionFlow ==
    /\ user_data.present
    /\ user_data.language # "None"
    /\ user_progress.k = "int"
    /\ 0 <= user_progress.n
    /\ user_progress.n < Len(steps)
    /\ user_data.editing_field = ""
    /\ ~user_data.awaiting_feedback

\* C25: when the process restarts during the question flow, the row that stays
\* in the table is the session memory held, and the text that comes next is
\* handled from it as it would have been from memory: the same step is
\* validated, and the same responses and progress result.
C25_SessionSurvivesRestart ==
    [][/\ (InQuestionFlow /\ handled'.h = "restart") =>
            /\ sessions' = sessions
            /\ sessions.present
            /\ Data(sessions.language, sessions.responses) = user_data
            /\ Index(sessions.progress) = user_progress
       /\ (/\ handled.h = "restart"
           /\ handled'.h = "msg_handler"
           /\ sessions.present
           /\ sessions.language # "None"
           /\ sessions.progress < Len(steps)) =>
            LET txt == handled'.arg
                k == sessions.progress
                was == Data(sessions.language, sessions.responses)
                now_answered == Put(sessions.responses, steps[k + 1], txt)
            IN  /\ handled'.restored
                /\ IF ~validate_input(steps[k + 1], txt)
                   THEN /\ user_data' = was
                        /\ user_progress' = Index(k)
                        /\ sessions' = sessions
                        /\ ~sent'.called
                   ELSE IF k + 1 < Len(steps)
                   THEN /\ user_data' = Data(sessions.language, now_answered)
                        /\ user_progress' = Index(k + 1)
                        /\ sessions' =
                             Row(sessions.language, k + 1, now_answered)
                        /\ handled'.asked = steps[k + 2]
                   ELSE /\ sent'.called
                        /\ sent'.fields = now_answered]_vars

\* After a restart in the middle of the questions, an answer was taken from
\* the restored session.
C25_Witness ==
    /\ handled.h = "msg_handler"
    /\ handled.restored
    /\ handled.outcome = "answered"
    /\ user_progress = Index(3)
    /\ DOMAIN user_data.responses = {"full_name", "address", "phone"}

\* ---------------------------------------------------------------------- C26
\* The first k steps all have a response that is not empty and passes
\* validate_input for its step.
AnsweredBelow(k, resp) ==
    \A i \in 1..k :
        /\ steps[i] \in DOMAIN resp
        /\ resp[steps[i]] # ""
        /\ validate_input(steps[i], resp[steps[i]])

\* The property of C26 on memory and on the row.
OrderedSession ==
    /\ (user_progress.k = "int" /\ user_progress.n >= 0) =>
           AnsweredBelow(user_progress.n, user_data.responses)
    /\ sessions.present =>
           AnsweredBelow(sessions.progress, sessions.responses)

\* The update handled is /retry or the Retry button.
NoRetry == ~RetryFollows

\* The progress the handler of the next update starts from.
ProgressBefore ==
    IF handled'.restored THEN sessions.progress ELSE user_progress.n

\* C26: without /retry, a progress k of 0..11 always has its first k steps
\* answered with validated, non-empty values, in memory and in the row; an
\* accepted answer is stored under the step the progress stood on and moves
\* the progress by exactly one; a question that is sent is the question of the
\* step the progress stands on, and once a language is chosen that question is
\* sent after every language choice, answer and edit short of the last step.
C26_AnswersAndQuestionsInStepOrder ==
    [][(OrderedSession /\ NoRetry) =>
          /\ OrderedSession'
          /\ (handled'.h = "msg_handler" /\ handled'.outcome = "answered") =>
                /\ user_progress' = Index(ProgressBefore + 1)
                /\ handled'.arg = user_data'.responses[steps[ProgressBefore + 1]]
          /\ handled'.asked \in StepSet =>
                /\ user_progress'.k = "int"
                /\ handled'.asked = steps[user_progress'.n + 1]
          /\ (/\ handled'.h = "msg_handler"
              /\ handled'.outcome \in {"language", "answered", "edited"}
              /\ user_data'.language # "None"
              /\ user_progress'.n < Len(steps)) =>
                handled'.asked = steps[user_progress'.n + 1]]_vars

\* An edit of a later field while phone is open: the progress is the first
\* open step and its question is the one sent.
C26_Witness ==
    /\ handled.h = "msg_handler"
    /\ handled.outcome = "edited"
    /\ DOMAIN user_data.responses = {"full_name", "address", "company_reason"}
    /\ user_progress = Index(2)
    /\ handled.asked = "phone"

\* ---------------------------------------------------------------------- C27
\* The session a text finds: the one in memory, or the one of the row when
\* the chat has no progress in memory and the row can be restored.
Restorable ==
    /\ user_progress.k = "absent"
    /\ sessions.present
    /\ sessions.language \in {"English", "Amharic"}

SessionData ==
    IF Restorable THEN Data(sessions.language, sessions.responses)
    ELSE user_data

SessionProgress ==
    IF Restorable THEN Index(sessions.progress) ELSE user_progress

\* The text handled next is a value for the pending edit, or an answer to the
\* step the progress stands on, and validate_input refuses it.
RefusedValue ==
    /\ handled'.h = "msg_handler"
    /\ SessionData.present
    /\ SessionProgress # Index(-1)
    /\ IF SessionData.editing_field # ""
       THEN ~validate_input(SessionData.editing_field, handled'.arg)
       ELSE /\ SessionProgress.k = "int"
            /\ SessionProgress.n < Len(steps)
            /\ ~validate_input(steps[SessionProgress.n + 1], handled'.arg)

\* C27: a text refused by validate_input leaves the progress, the responses,
\* the pending editing_field and the row as they were, and no generation is
\* started.
C27_RefusedValueChangesNothing ==
    [][RefusedValue =>
          /\ user_progress' = SessionProgress
          /\ user_data'.responses = SessionData.responses
          /\ user_data'.language = SessionData.language
          /\ user_data'.editing_field = SessionData.editing_field
          /\ sessions' = sessions
          /\ ~sent'.called
          /\ handled'.asked = ""]_vars

\* A value refused for the field being edited.
C27_Witness ==
    /\ handled.h = "msg_handler"
    /\ handled.outcome = "rejected"
    /\ user_data.editing_field = "address"
    /\ user_progress = EditingValue
    /\ "full_name" \in DOMAIN user_data.responses
    /\ sessions.present

\* ---------------------------------------------------------------------- C28
\* The text handled next is a value validate_input accepts for the field of
\* the pending edit.
AcceptedEdit ==
    /\ handled'.h = "msg_handler"
    /\ user_data.present
    /\ ~user_data.awaiting_feedback
    /\ user_progress \notin {NoProgress, Index(-1)}
    /\ user_data.editing_field # ""
    /\ validate_input(user_data.editing_field, handled'.arg)

\* The index of the first step without a non-empty response.
FirstOpen(resp) ==
    LET answered(i) == steps[i] \in DOMAIN resp /\ resp[steps[i]] # ""
    IN  IF \A i \in 1..Len(steps) : answered(i) THEN Len(steps)
        ELSE CHOOSE k \in 0..(Len(steps) - 1) :
                 /\ ~answered(k + 1)
                 /\ \A i \in 1..k : answered(i)

\* C28: an accepted edit writes the value under the edited field and leaves
\* every other response as it was; the pending field is cleared, the progress
\* is the first step without a non-empty response (the number of steps when
\* there is none), the row holds the new responses with that progress, and no
\* generation is started.
C28_AcceptedEditChangesOneField ==
    [][AcceptedEdit =>
          LET field == user_data.editing_field
              resp == user_data'.responses
          IN  /\ DOMAIN resp = DOMAIN user_data.responses \cup {field}
              /\ resp[field] = handled'.arg
              /\ \A f \in DOMAIN user_data.responses \ {field} :
                     resp[f] = user_data.responses[f]
              /\ user_data'.language = user_data.language
              /\ user_data'.editing_field = ""
              /\ user_progress' = Index(FirstOpen(resp))
              /\ sessions'.present
              /\ sessions'.language = user_data.language
              /\ sessions'.progress = FirstOpen(resp)
              /\ sessions'.responses = resp
              /\ ~sent'.called]_vars

\* A field of a complete session was edited: the progress stays at the number
\* of steps and nothing was generated.
C28_Witness ==
    /\ handled.h = "msg_handler"
    /\ handled.outcome = "edited"
    /\ DOMAIN user_data.responses = StepSet
    /\ user_progress = Index(Len(steps))
    /\ ~sent.called

\* ---------------------------------------------------------------------- C29
\* C29: when the Cancel button of the edit keyboard has been handled in a
\* session with answers, the progress is again the step index the session had
\* before the edit began, which is the progress its row still holds.
C29_CancelRestoresProgress ==
    (/\ handled.h = "cb_handler"
     /\ handled.arg = "edit_cancel"
     /\ HasAnswers(user_data)
     /\ sessions.present) =>
        /\ user_progress.k = "int"
        /\ user_progress.n = sessions.progress

\* ---------------------------------------------------------------------- C30
\* C30: when the thread scheduled by a finished letter wakes after a new
\* session was started (the progress is below the number of steps again), it
\* leaves the new session alone: memory and the row stay as they are.
C30_ClearSparesNewSession ==
    [][(/\ handled'.h = "clear"
        /\ user_progress.k = "int"
        /\ user_progress.n < Len(steps)) =>
           UNCHANGED <<user_data, user_progress, sessions>>]_vars

\* ---------------------------------------------------------------------- C31
\* An answer of the Gemini endpoint that the classifier is applied to.
Classified(resp) ==
    /\ P = "gemini"
    /\ resp.t = "http"
    /\ resp.status \in {429, 403}

ExhaustedStatus(resp) == resp.pstatus \in {"RESOURCE_EXHAUSTED", "QUOTA_EXCEEDED"}

\* The message matches the quota and the rate-limit vocabulary alike.
MatchesBoth(resp) == MatchesQuota(resp.msg) /\ MatchesRate(resp.msg)

\* C31: a 429 or 403 whose message matches both vocabularies, without an
\* exhausted provider status, is classified rate_limit: the request never ends
\* as a quota failure on it, and when a 429 of that kind ends the request the
\* failure is a rate-limit one. With provider status RESOURCE_EXHAUSTED or
\* QUOTA_EXCEEDED the answer is classified quota whatever its message, and the
\* request ends on it as a quota failure.
C31_RateLimitBeforeQuotaWords ==
    Classified(last) =>
        /\ (MatchesBoth(last) /\ ~ExhaustedStatus(last)) =>
              /\ classify(last.status, last.pstatus, last.msg) = "rate_limit"
              /\ pc = "done" => Classification(result) # "quota"
              /\ (pc = "done" /\ last.status = 429) =>
                    Classification(result) = "rate_limit"
        /\ ExhaustedStatus(last) =>
              /\ classify(last.status, last.pstatus, last.msg) = "quota"
              /\ pc = "done"
              /\ Classification(result) = "quota"

\* The last allowed attempt was answered 429 with a message of both
\* vocabularies and the request ended as rate limited.
C31_Witness ==
    /\ Classified(last)
    /\ last.status = 429
    /\ MatchesBoth(last)
    /\ ~ExhaustedStatus(last)
    /\ pc = "done"
    /\ Classification(result) = "rate_limit"

====
